---- MODULE Spec2Model ----
(***************************************************************************)
(* Model of the Maricheck crew/staff registration application              *)
(* (src/app.py, src/models.py): the crew and staff tables, the per-client  *)
(* session, the upload directory and one action per request handler.       *)
(*                                                                         *)
(* Strings the code inspects character by character (form fields, file     *)
(* names) are sequences of one-character strings.  Python's None is the    *)
(* empty sequence None and a present value x is the one-element sequence   *)
(* Some(x).                                                                *)
(***************************************************************************)
EXTENDS Integers, Sequences, FiniteSets, TLC

VARIABLES crew, staff, session, uploads, now, response, txn

vars == <<crew, staff, session, uploads, now, response, txn>>

(* ------------------------------ bounds --------------------------------- *)

MaxCrew == 2

MaxStaff == 1

MaxClock == 1

\* files kept in the upload directory when the store is exercised alone
MaxUploads == 1

(* ------------------------- Python value helpers ------------------------ *)

None == <<>>

Some(x) == <<x>>

SetMin(S) == CHOOSE x \in S : \A y \in S : x <= y

SetMax(S) == CHOOSE x \in S : \A y \in S : x >= y

LowerChars == <<"a","b","c","d","e","f","g","h","i","j","k","l","m",
                "n","o","p","q","r","s","t","u","v","w","x","y","z">>

UpperChars == <<"A","B","C","D","E","F","G","H","I","J","K","L","M",
                "N","O","P","Q","R","S","T","U","V","W","X","Y","Z">>

DigitChars == <<"0","1","2","3","4","5","6","7","8","9">>

Whitespace == {" "}

Range(s) == {s[i] : i \in 1..Len(s)}

IndexOf(c, t) == SetMin({i \in 1..Len(t) : t[i] = c})

\* str.upper() on one character
UpperChar(c) == IF c \in Range(LowerChars) THEN UpperChars[IndexOf(c, LowerChars)] ELSE c

\* str.lower() on one character
LowerChar(c) == IF c \in Range(UpperChars) THEN LowerChars[IndexOf(c, UpperChars)] ELSE c

\* str.upper()
Upper(s) == [i \in 1..Len(s) |-> UpperChar(s[i])]

\* str.lower()
Lower(s) == [i \in 1..Len(s) |-> LowerChar(s[i])]

\* str.strip(): drop leading and trailing whitespace
Strip(s) ==
    LET keep == {i \in 1..Len(s) : s[i] \notin Whitespace}
    IN  IF keep = {} THEN <<>> ELSE SubSeq(s, SetMin(keep), SetMax(keep))

\* str.strip(chars)
StripChars(s, chars) ==
    LET keep == {i \in 1..Len(s) : s[i] \notin chars}
    IN  IF keep = {} THEN <<>> ELSE SubSeq(s, SetMin(keep), SetMax(keep))

\* str.replace(a, b) for one-character a and b
Replace(s, a, b) == [i \in 1..Len(s) |-> IF s[i] = a THEN b ELSE s[i]]

\* positions of the character c in s
Positions(s, c) == {i \in 1..Len(s) : s[i] = c}

\* value of a string of decimal digits
RECURSIVE DigitsVal(_)
DigitsVal(s) ==
    IF s = <<>> THEN 0
    ELSE 10 * DigitsVal(SubSeq(s, 1, Len(s) - 1)) + (IndexOf(s[Len(s)], DigitChars) - 1)

IsDigits(s) == s # <<>> /\ \A i \in 1..Len(s) : s[i] \in Range(DigitChars)

\* int(text): surrounding whitespace, an optional sign, digits with single
\* underscores between them; anything else raises ValueError (ok = FALSE)
ParseInt(text) ==
    LET t      == Strip(text)
        signed == t # <<>> /\ t[1] \in {"+", "-"}
        body   == IF signed THEN SubSeq(t, 2, Len(t)) ELSE t
        digits == SelectSeq(body, LAMBDA c : c # "_")
        wellformed ==
            /\ body # <<>>
            /\ \A i \in 1..Len(body) : body[i] \in Range(DigitChars) \cup {"_"}
            /\ body[1] # "_" /\ body[Len(body)] # "_"
            /\ \A i \in 1..(Len(body) - 1) : ~(body[i] = "_" /\ body[i + 1] = "_")
    IN  IF ~wellformed THEN [ok |-> FALSE, val |-> 0]
        ELSE [ok |-> TRUE,
              val |-> IF signed /\ t[1] = "-" THEN 0 - DigitsVal(digits) ELSE DigitsVal(digits)]

IsLeap(y) == (y % 4 = 0 /\ y % 100 # 0) \/ y % 400 = 0

DaysInMonth(y, m) ==
    IF m = 2 THEN (IF IsLeap(y) THEN 29 ELSE 28)
    ELSE IF m \in {4, 6, 9, 11} THEN 30 ELSE 31

\* datetime.strptime(text, '%Y-%m-%d').date(): four-digit year, one- or
\* two-digit month and day, a real calendar date; else ValueError
ParseDate(text) ==
    LET dashes == Positions(text, "-")
        d1     == SetMin(dashes)
        d2     == SetMax(dashes)
        ys     == SubSeq(text, 1, d1 - 1)
        ms     == SubSeq(text, d1 + 1, d2 - 1)
        ds     == SubSeq(text, d2 + 1, Len(text))
        shape  == /\ Cardinality(dashes) = 2
                  /\ IsDigits(ys) /\ Len(ys) = 4
                  /\ IsDigits(ms) /\ Len(ms) \in {1, 2}
                  /\ IsDigits(ds) /\ Len(ds) \in {1, 2}
        y      == DigitsVal(ys)
        m      == DigitsVal(ms)
        d      == DigitsVal(ds)
    IN  IF shape /\ y >= 1 /\ m \in 1..12 /\ d \in 1..DaysInMonth(y, m)
        THEN [ok |-> TRUE, val |-> <<y, m, d>>]
        ELSE [ok |-> FALSE, val |-> <<>>]

(* ------------------------------ file store ----------------------------- *)

ALLOWED_EXTENSIONS ==
    { <<"p","d","f">>, <<"d","o","c">>, <<"d","o","c","x">>,
      <<"j","p","g">>, <<"j","p","e","g">>, <<"p","n","g">> }

\* filename.rsplit('.', 1)[1]: the text after the last '.'
AfterLastDot(filename) == SubSeq(filename, SetMax(Positions(filename, ".")) + 1, Len(filename))

allowed_file_as_typed(filename) ==
    /\ Positions(filename, ".") # {}
    /\ AfterLastDot(filename) \in ALLOWED_EXTENSIONS

allowed_file(filename) ==
    /\ Positions(filename, ".") # {}
    /\ Lower(AfterLastDot(filename)) \in ALLOWED_EXTENSIONS

SafeChars == Range(LowerChars) \cup Range(UpperChars) \cup Range(DigitChars) \cup {"_", ".", "-"}

\* "_".join(text.split()): whitespace runs become one '_', none at the ends
RECURSIVE JoinWords(_)
JoinWords(t) ==
    IF t = <<>> THEN <<>>
    ELSE IF t[1] \in Whitespace
         THEN (IF Len(t) > 1 /\ t[2] \in Whitespace
               THEN JoinWords(Tail(t))
               ELSE <<"_">> \o JoinWords(Tail(t)))
         ELSE <<t[1]>> \o JoinWords(Tail(t))

\* werkzeug.utils.secure_filename on ASCII input
secure_filename(filename) ==
    LET nosep  == Replace(filename, "/", " ")
        joined == JoinWords(Strip(nosep))
        ascii  == SelectSeq(joined, LAMBDA c : c \in SafeChars)
    IN  StripChars(ascii, {".", "_"})

\* os.path.splitext: the extension starts at the last '.', unless only dots
\* precede it
splitext(filename) ==
    LET dots == Positions(filename, ".")
        last == SetMax(dots)
    IN  IF dots = {} \/ (\A i \in 1..last : filename[i] = ".")
        THEN [name |-> filename, ext |-> <<>>]
        ELSE [name |-> SubSeq(filename, 1, last - 1), ext |-> SubSeq(filename, last, Len(filename))]

\* datetime.now().strftime('%Y%m%d_%H%M%S') at clock second t: the seconds
\* field; the date, hour and minute fields are the same for every t modelled
Timestamp(t) == <<DigitChars[((t \div 10) % 6) + 1], DigitChars[(t % 10) + 1]>>

FileAcceptedAnyName(file) == file # None /\ file[1].filename # <<>>

\* bool(file) and allowed_file(file.filename): the test of save_uploaded_file
FileAccepted(file) ==
    /\ file # None
    /\ file[1].filename # <<>>
    /\ allowed_file(file[1].filename)

\* the name save_uploaded_file stores an accepted file under
safe_filename(file, prefix, t) ==
    LET parts == splitext(secure_filename(file[1].filename))
    IN  prefix \o <<"_">> \o parts.name \o <<"_">> \o Timestamp(t) \o parts.ext

\* the return value of save_uploaded_file
save_uploaded_file(file, folder, prefix, t) ==
    IF FileAccepted(file) THEN Some(safe_filename(file, prefix, t)) ELSE None

\* the upload directory after save_uploaded_file: file.save replaces whatever
\* was stored under the same folder and name
SavedUploads(U, file, folder, prefix, t) ==
    IF FileAccepted(file)
    THEN LET n == safe_filename(file, prefix, t)
         IN  {u \in U : ~(u.folder = folder /\ u.name = n)}
                 \cup {[folder |-> folder, name |-> n, content |-> file[1].content]}
    ELSE U

(* ------------------------------- sessions ------------------------------ *)

\* the client sessions: the keys of the session store
Sessions == DOMAIN session

NoSession == "-"

\* the admin seeded at first start-up: username 'admin', password 'admin123'
AdminName == <<"a","d","m","i","n">>

\* generate_password_hash: a salted hash, modelled as collision-free
generate_password_hash(password) == <<"hash", password>>

check_password_hash(pwhash, password) == pwhash = generate_password_hash(password)

Admins == {[username |-> AdminName, password_hash |-> generate_password_hash("admin123")]}

EmptySession == [k \in {} |-> TRUE]

is_admin_logged_in(sess) ==
    IF "admin_logged_in" \in DOMAIN sess THEN sess["admin_logged_in"] ELSE FALSE

\* session.pop(key, None)
Pop(sess, key) == [k \in (DOMAIN sess) \ {key} |-> sess[k]]

\* session[key] = value
Put(sess, key, value) == [k \in (DOMAIN sess) \cup {key} |-> IF k = key THEN value ELSE sess[k]]

(* ------------------------------- responses ----------------------------- *)

status_stages == <<"Registered", "Screening", "Documents Verified", "Approved">>

\* status_stages[i] as Python indexes a list: negative i counts from the end,
\* i outside -len..len-1 raises IndexError (ok = FALSE)
StageLabel(i) ==
    LET n == Len(status_stages)
    IN  IF i \in 0..(n - 1) THEN [ok |-> TRUE, val |-> status_stages[i + 1]]
        ELSE IF i \in (0 - n)..(0 - 1) THEN [ok |-> TRUE, val |-> status_stages[n + i + 1]]
        ELSE [ok |-> FALSE, val |-> ""]

Resp(op, sid, id, result, flash) ==
    [op |-> op, sid |-> sid, id |-> id, result |-> result, flash |-> flash]

\* the response slot while no request is being served
NoResponse == Resp("none", NoSession, 0, "none", <<>>)

MsgLoginRequired == "Please log in to access the admin dashboard."

MsgDuplicate == "A crew member with this passport number already exists."

MsgRequired == "Name, rank, and passport are required fields."

MsgStaffRequired == "Name, contact, position, and department are required fields."

MsgBadFormat == "Please check date formats and numeric values."

MsgAlreadyFinal == "Crew member is already at final status."

MsgUpdateError == "Error updating status."

MsgInvalidLogin == "Invalid username or password."

MsgEnterBoth == "Please enter both username and password."

\* require_admin(): None when the session is logged in, else the redirect
require_admin(sess) ==
    IF ~is_admin_logged_in(sess) THEN Some("redirect:admin_login") ELSE None

(* ------------------------------ registry -------------------------------- *)

\* CrewMember.query.filter_by(passport=key): ids of the rows with that passport
CrewByPassport(key) == {i \in 1..Len(crew) : crew[i].passport = key}

\* the key register looks an existing crew member up by
DuplicateKeyOf(passport) == Upper(passport)

\* variant: the passport stored as typed
StoredPassportAsTyped(passport) == passport

\* the passport value register stores
StoredPassport(passport) == Upper(passport)

\* the try block of register / register_staff: an empty field stays None, a
\* supplied one must parse
ParsedDate(text) == IF text = <<>> THEN None ELSE Some(ParseDate(text).val)

ParsedInt(text) == IF text = <<>> THEN None ELSE Some(ParseInt(text).val)

DateFails(text) == text # <<>> /\ ~ParseDate(text).ok

IntFailsNever(text) == FALSE

IntFails(text) == text # <<>> /\ ~ParseInt(text).ok

CrewInitialStatus == 0

\* variant: staff start where crew start
StaffStartsRegistered == CrewInitialStatus

StaffInitialStatus == 1

\* the CrewMember row register inserts
NewCrew(name, rank, passport, nationality, dob, years_exp, vessel_type, availability, passport_file, cdc_file, resume_file, photo_file, t) ==
    [ name              |-> name,
      rank              |-> rank,
      passport          |-> StoredPassport(passport),
      nationality       |-> nationality,
      date_of_birth     |-> ParsedDate(dob),
      years_experience  |-> ParsedInt(years_exp),
      last_vessel_type  |-> vessel_type,
      availability_date |-> ParsedDate(availability),
      passport_file     |-> passport_file,
      cdc_file          |-> cdc_file,
      resume_file       |-> resume_file,
      photo_file        |-> photo_file,
      status            |-> CrewInitialStatus,
      created_at        |-> t,
      updated_at        |-> t ]

\* the StaffMember row register_staff inserts
NewStaff(full_name, contact, position, department, years_exp, employer, location, availability, resume_file, photo_file, t) ==
    [ full_name         |-> full_name,
      email_or_whatsapp |-> contact,
      position_applying |-> position,
      department        |-> department,
      years_experience  |-> ParsedInt(years_exp),
      current_employer  |-> employer,
      location          |-> location,
      availability_date |-> ParsedDate(availability),
      resume_file       |-> resume_file,
      photo_file        |-> photo_file,
      status            |-> StaffInitialStatus,
      created_at        |-> t,
      updated_at        |-> t ]

\* variant: the UPDATE refreshes created_at as well
WithStatusStampingBoth(row, status, t) ==
    IF row.status = status THEN row
    ELSE [row EXCEPT !.status = status, !.updated_at = t, !.created_at = t]

\* a row after its status attribute was assigned and the session committed:
\* onupdate refreshes updated_at only when the UPDATE changes the row
WithStatus(row, status, t) ==
    IF row.status = status THEN row
    ELSE [row EXCEPT !.status = status, !.updated_at = t]

(* ------------------------------- inputs --------------------------------- *)

Upload(filename, content) == Some([filename |-> filename, content |-> content])

PassportInputs ==
    { <<"a","b","1">>, <<"A","B","1">>, <<" ","A","b","1"," ">>, <<" ">> }

BaseCrewForm ==
    [ name              |-> <<"J"," ","D">>,
      rank              |-> <<"C","p","t">>,
      passport          |-> <<"a","b","1">>,
      nationality       |-> <<"U","K">>,
      date_of_birth     |-> <<>>,
      years_experience  |-> <<>>,
      last_vessel_type  |-> <<>>,
      availability_date |-> <<>>,
      passport_file     |-> None,
      cdc_file          |-> None,
      resume_file       |-> None,
      photo_file        |-> None ]

\* the crew registration forms submitted
CrewForms ==
    { [BaseCrewForm EXCEPT !.passport = p] : p \in PassportInputs }
    \cup { [BaseCrewForm EXCEPT !.name = <<" ">>, !.passport = <<"A","B","1">>],
           [BaseCrewForm EXCEPT !.passport = <<"C","D","2">>,
                                !.date_of_birth = <<"2","0","0","1","-","2","-","3","0">>,
                                !.cdc_file = Upload(<<"c",".","p","n","g">>, "blob4")],
           [BaseCrewForm EXCEPT !.passport = <<"E","F","3">>,
                                !.availability_date = <<"1","/","2","/","2","0","2","7">>,
                                !.resume_file = Upload(<<"c","v",".","d","o","c">>, "blob3")],
           [BaseCrewForm EXCEPT !.passport = <<"E","F","3">>,
                                !.years_experience = <<"1",".","5">>,
                                !.passport_file = Upload(<<"s",".","P","D","F">>, "blob1")],
           [BaseCrewForm EXCEPT !.rank = <<>>,
                                !.passport = <<"E","F","3">>,
                                !.photo_file = Upload(<<"p",".","j","p","g">>, "blob5")],
           [BaseCrewForm EXCEPT !.passport = <<"c","d","2">>,
                                !.date_of_birth = <<"2","0","0","0","-","0","2","-","2","9">>,
                                !.years_experience = <<"-","4">>,
                                !.passport_file = Upload(<<"s",".","P","D","F">>, "blob1"),
                                !.cdc_file = Upload(<<"c","d","c">>, "blob6"),
                                !.photo_file = Upload(<<"m",".","e","x","e">>, "blob2")] }

BaseStaffForm ==
    [ full_name         |-> <<"A"," ","B">>,
      email_or_whatsapp |-> <<"a","@","b">>,
      position_applying |-> <<"H","R">>,
      department        |-> <<"H","R">>,
      years_experience  |-> <<>>,
      current_employer  |-> <<>>,
      location          |-> <<>>,
      availability_date |-> <<>>,
      resume_file       |-> None,
      photo_file        |-> None ]

\* the staff registration forms submitted
StaffForms ==
    { [BaseStaffForm EXCEPT !.department = <<" ">>],
      [BaseStaffForm EXCEPT !.years_experience = <<"x">>],
      [BaseStaffForm EXCEPT !.years_experience = <<"7">>,
                            !.resume_file = Upload(<<"c","v",".","d","o","c">>, "blob3"),
                            !.photo_file = Upload(<<"m","e",".","g","i","f">>, "blob7")] }

CrewIdInputs == 1..(MaxCrew + 1)

StaffIdInputs == 1..(MaxStaff + 1)

UsernameInputs == { AdminName, <<" ">> \o AdminName, <<"b","o","b">>, <<>> }

PasswordInputs == { "admin123", "wrong", "" }

(* -------------------------------- state --------------------------------- *)

\* the request workers; each serves one request at a time with a database
\* session of its own
Workers == {"w1", "w2"}

\* a status request in flight: the row it loaded and the status it read
Txn(op, sid, id, loaded) == [op |-> op, sid |-> sid, id |-> id, loaded |-> loaded]

\* the worker serves no status request
NoTxn == Txn("none", NoSession, 0, 0)

\* the state at start-up with the given clients, none of them logged in
InitWith(clients) ==
    /\ crew = <<>>
    /\ staff = <<>>
    /\ session = [s \in clients |-> EmptySession]
    /\ uploads = {}
    /\ now = 0
    /\ response = NoResponse
    /\ txn = [w \in Workers |-> NoTxn]

Init == InitWith({"s1", "s2"})

\* the clock advances by a second
Tick ==
    /\ now < MaxClock
    /\ now' = now + 1
    /\ UNCHANGED <<crew, staff, session, uploads, response, txn>>

\* POST /register from the conversion of dates and numbers on: the uploads
\* are saved, the row is added and the session committed
RegisterAfterLookup(form) ==
    LET name         == Strip(form.name)
        rank         == Strip(form.rank)
        passport     == Strip(form.passport)
        nationality  == Strip(form.nationality)
        dob          == form.date_of_birth
        years_exp    == form.years_experience
        vessel_type  == Strip(form.last_vessel_type)
        availability == form.availability_date
        prefix(kind) == Replace(name, " ", "_") \o kind
        pre_passport == prefix(<<"_","p","a","s","s","p","o","r","t">>)
        pre_cdc      == prefix(<<"_","c","d","c">>)
        pre_resume   == prefix(<<"_","r","e","s","u","m","e">>)
        pre_photo    == prefix(<<"_","p","h","o","t","o">>)
        u1           == SavedUploads(uploads, form.passport_file, "crew", pre_passport, now)
        u2           == SavedUploads(u1, form.cdc_file, "crew", pre_cdc, now)
        u3           == SavedUploads(u2, form.resume_file, "crew", pre_resume, now)
        u4           == SavedUploads(u3, form.photo_file, "crew", pre_photo, now)
        new_crew     == NewCrew(name, rank, passport, nationality, dob, years_exp,
                                vessel_type, availability,
                                save_uploaded_file(form.passport_file, "crew", pre_passport, now),
                                save_uploaded_file(form.cdc_file, "crew", pre_cdc, now),
                                save_uploaded_file(form.resume_file, "crew", pre_resume, now),
                                save_uploaded_file(form.photo_file, "crew", pre_photo, now),
                                now)
    IN  IF \/ DateFails(dob)
           \/ DateFails(availability)
           \/ IntFails(years_exp)
        THEN /\ response' = Resp("register", NoSession, 0, "register.html", <<MsgBadFormat>>)
             /\ UNCHANGED <<crew, staff, session, uploads, now>>
        ELSE IF CrewByPassport(new_crew.passport) # {}
        \* the unique constraint on crew_members.passport fails the commit
        THEN /\ uploads' = u4
             /\ response' = Resp("register", NoSession, 0, "500", <<>>)
             /\ UNCHANGED <<crew, staff, session, now>>
        ELSE /\ Len(crew) < MaxCrew
             /\ crew' = Append(crew, new_crew)
             /\ uploads' = u4
             /\ response' = Resp("register", NoSession, Len(crew) + 1, "thankyou.html",
                                 <<"Registration completed successfully!">>)
             /\ UNCHANGED <<staff, session, now>>

\* POST /register up to the duplicate lookup: TRUE when the required fields
\* are there and no stored row has the passport
PassesLookup(form) ==
    /\ Strip(form.name) # <<>>
    /\ Strip(form.rank) # <<>>
    /\ Strip(form.passport) # <<>>
    /\ CrewByPassport(DuplicateKeyOf(Strip(form.passport))) = {}

\* POST /register
Register(form) ==
    IF Strip(form.name) = <<>> \/ Strip(form.rank) = <<>> \/ Strip(form.passport) = <<>>
    THEN /\ response' = Resp("register", NoSession, 0, "register.html", <<MsgRequired>>)
         /\ UNCHANGED <<crew, staff, session, uploads, now>>
    ELSE IF CrewByPassport(DuplicateKeyOf(Strip(form.passport))) # {}
    THEN /\ response' = Resp("register", NoSession, 0, "register.html", <<MsgDuplicate>>)
         /\ UNCHANGED <<crew, staff, session, uploads, now>>
    ELSE RegisterAfterLookup(form)

\* GET /register
RegisterForm ==
    /\ response' = Resp("register_form", NoSession, 0, "register.html", <<>>)
    /\ UNCHANGED <<crew, staff, session, uploads, now>>

\* POST /register-staff
RegisterStaff(form) ==
    LET full_name    == Strip(form.full_name)
        contact      == Strip(form.email_or_whatsapp)
        position     == Strip(form.position_applying)
        department   == Strip(form.department)
        years_exp    == form.years_experience
        employer     == Strip(form.current_employer)
        location     == Strip(form.location)
        availability == form.availability_date
        prefix(kind) == Replace(full_name, " ", "_") \o kind
        pre_resume   == prefix(<<"_","r","e","s","u","m","e">>)
        pre_photo    == prefix(<<"_","p","h","o","t","o">>)
        u1           == SavedUploads(uploads, form.resume_file, "staff", pre_resume, now)
        u2           == SavedUploads(u1, form.photo_file, "staff", pre_photo, now)
        new_staff    == NewStaff(full_name, contact, position, department, years_exp,
                                 employer, location, availability,
                                 save_uploaded_file(form.resume_file, "staff", pre_resume, now),
                                 save_uploaded_file(form.photo_file, "staff", pre_photo, now),
                                 now)
    IN  IF full_name = <<>> \/ contact = <<>> \/ position = <<>> \/ department = <<>>
        THEN /\ response' = Resp("register_staff", NoSession, 0, "register_staff.html",
                                 <<MsgStaffRequired>>)
             /\ UNCHANGED <<crew, staff, session, uploads, now>>
        ELSE IF DateFails(availability) \/ IntFails(years_exp)
        THEN /\ response' = Resp("register_staff", NoSession, 0, "register_staff.html",
                                 <<MsgBadFormat>>)
             /\ UNCHANGED <<crew, staff, session, uploads, now>>
        ELSE /\ Len(staff) < MaxStaff
             /\ staff' = Append(staff, new_staff)
             /\ uploads' = u2
             /\ response' = Resp("register_staff", NoSession, Len(staff) + 1,
                                 "thankyou_staff.html",
                                 <<"Staff registration completed successfully!">>)
             /\ UNCHANGED <<crew, session, now>>

(* ---------------------------- admin handlers ---------------------------- *)

Unauthenticated(op, s, id) ==
    /\ response' = Resp(op, s, id, "redirect:admin_login", <<MsgLoginRequired>>)
    /\ UNCHANGED <<crew, staff, session, uploads, now>>

\* GET /admin, /admin/dashboard
Dashboard(s) ==
    IF require_admin(session[s]) # None
    THEN Unauthenticated("dashboard", s, 0)
    ELSE /\ response' = Resp("dashboard", s, 0, "dashboard.html", <<>>)
         /\ UNCHANGED <<crew, staff, session, uploads, now>>

\* GET /uploads/<folder>/<filename>
DownloadFile(s, folder, filename) ==
    IF require_admin(session[s]) # None
    THEN /\ response' = Resp("download_file", s, 0, "redirect:admin_login",
                             <<MsgLoginRequired, "Admin access required to download files.">>)
         /\ UNCHANGED <<crew, staff, session, uploads, now>>
    ELSE /\ response' = Resp("download_file", s, 0,
                             IF \E u \in uploads : u.folder = folder /\ u.name = filename
                             THEN "file" ELSE "404",
                             <<>>)
         /\ UNCHANGED <<crew, staff, session, uploads, now>>

\* variant: the bound of the advance test off by one
CanAdvanceInclusive(status) == status <= Len(status_stages) - 1

\* crew_member.status < len(status_stages) - 1
CanAdvance(status) == status < Len(status_stages) - 1

\* variant: advance skips a stage
AdvancedStatusSkipping(status) == status + 2

\* crew_member.status += 1
AdvancedStatus(status) == status + 1

\* GET /update_status/<crew_id>
UpdateStatus(s, crew_id) ==
    IF require_admin(session[s]) # None
    THEN Unauthenticated("update_status", s, crew_id)
    ELSE IF crew_id \notin 1..Len(crew)
    \* get_or_404 raises inside the try block: caught by except Exception
    THEN /\ response' = Resp("update_status", s, crew_id, "redirect:dashboard", <<MsgUpdateError>>)
         /\ UNCHANGED <<crew, staff, session, uploads, now>>
    ELSE IF CanAdvance(crew[crew_id].status)
    THEN LET status == AdvancedStatus(crew[crew_id].status)
         IN  /\ crew' = [crew EXCEPT ![crew_id] = WithStatus(@, status, now)]
             \* a failing label lookup is caught after the commit
             /\ response' = Resp("update_status", s, crew_id, "redirect:dashboard",
                                 IF StageLabel(status).ok
                                 THEN <<"Status updated to " \o StageLabel(status).val>>
                                 ELSE <<MsgUpdateError>>)
             /\ UNCHANGED <<staff, session, uploads, now>>
    ELSE /\ response' = Resp("update_status", s, crew_id, "redirect:dashboard", <<MsgAlreadyFinal>>)
         /\ UNCHANGED <<crew, staff, session, uploads, now>>

\* GET /profile/crew/<crew_id>
CrewProfile(s, crew_id) ==
    IF require_admin(session[s]) # None
    THEN Unauthenticated("crew_profile", s, crew_id)
    ELSE /\ response' = Resp("crew_profile", s, crew_id,
                             IF crew_id \in 1..Len(crew) THEN "crew_profile.html" ELSE "404", <<>>)
         /\ UNCHANGED <<crew, staff, session, uploads, now>>

\* GET /profile/staff/<staff_id>
StaffProfile(s, staff_id) ==
    IF require_admin(session[s]) # None
    THEN Unauthenticated("staff_profile", s, staff_id)
    ELSE /\ response' = Resp("staff_profile", s, staff_id,
                             IF staff_id \in 1..Len(staff) THEN "staff_profile.html" ELSE "404", <<>>)
         /\ UNCHANGED <<crew, staff, session, uploads, now>>

ApprovedStatus == 3

RejectedStatus == -1

\* variant: a rejected crew record is left as it is
SetCrewStatusUnlessRejected(op, s, crew_id, status, flash) ==
    IF require_admin(session[s]) # None
    THEN Unauthenticated(op, s, crew_id)
    ELSE IF crew_id \notin 1..Len(crew)
    THEN /\ response' = Resp(op, s, crew_id, "404", <<>>)
         /\ UNCHANGED <<crew, staff, session, uploads, now>>
    ELSE /\ crew' = [crew EXCEPT ![crew_id] =
                         IF @.status = -1 THEN @ ELSE WithStatus(@, status, now)]
         /\ response' = Resp(op, s, crew_id, "redirect:dashboard", <<flash>>)
         /\ UNCHANGED <<staff, session, uploads, now>>

\* the body shared by approve_crew and reject_crew
SetCrewStatus(op, s, crew_id, status, flash) ==
    IF require_admin(session[s]) # None
    THEN Unauthenticated(op, s, crew_id)
    ELSE IF crew_id \notin 1..Len(crew)
    THEN /\ response' = Resp(op, s, crew_id, "404", <<>>)
         /\ UNCHANGED <<crew, staff, session, uploads, now>>
    ELSE /\ crew' = [crew EXCEPT ![crew_id] = WithStatus(@, status, now)]
         /\ response' = Resp(op, s, crew_id, "redirect:dashboard", <<flash>>)
         /\ UNCHANGED <<staff, session, uploads, now>>

\* the body shared by approve_staff and reject_staff
SetStaffStatus(op, s, staff_id, status, flash) ==
    IF require_admin(session[s]) # None
    THEN Unauthenticated(op, s, staff_id)
    ELSE IF staff_id \notin 1..Len(staff)
    THEN /\ response' = Resp(op, s, staff_id, "404", <<>>)
         /\ UNCHANGED <<crew, staff, session, uploads, now>>
    ELSE /\ staff' = [staff EXCEPT ![staff_id] = WithStatus(@, status, now)]
         /\ response' = Resp(op, s, staff_id, "redirect:dashboard", <<flash>>)
         /\ UNCHANGED <<crew, session, uploads, now>>

\* GET /approve/crew/<crew_id>
ApproveCrew(s, crew_id) ==
    SetCrewStatus("approve_crew", s, crew_id, ApprovedStatus, "Crew member has been approved!")

\* variant: an approved crew record is left as it is
RejectCrewUnlessApproved(s, crew_id) ==
    SetCrewStatus("reject_crew", s, crew_id,
                  IF crew_id \in 1..Len(crew) /\ crew[crew_id].status = 3 THEN 3 ELSE -1,
                  "Crew member has been rejected.")

\* GET /reject/crew/<crew_id>
RejectCrew(s, crew_id) ==
    SetCrewStatus("reject_crew", s, crew_id, RejectedStatus, "Crew member has been rejected.")

\* variant: the handler without the admin gate
ApproveStaffUngated(s, staff_id) ==
    IF staff_id \notin 1..Len(staff)
    THEN /\ response' = Resp("approve_staff", s, staff_id, "404", <<>>)
         /\ UNCHANGED <<crew, staff, session, uploads, now>>
    ELSE /\ staff' = [staff EXCEPT ![staff_id] = WithStatus(@, 3, now)]
         /\ response' = Resp("approve_staff", s, staff_id, "redirect:dashboard",
                             <<"Staff member has been approved!">>)
         /\ UNCHANGED <<crew, session, uploads, now>>

\* GET /approve/staff/<staff_id>
ApproveStaff(s, staff_id) ==
    SetStaffStatus("approve_staff", s, staff_id, ApprovedStatus, "Staff member has been approved!")

\* GET /reject/staff/<staff_id>
RejectStaff(s, staff_id) ==
    SetStaffStatus("reject_staff", s, staff_id, RejectedStatus, "Staff member has been rejected.")

(* ------------------------------ session gate ---------------------------- *)

\* variant: the password is not checked
CredentialsMatchUserOnly(username, password) ==
    \E a \in Admins : a.username = username

\* Admin.query.filter_by(username=username).first() and the hash check
CredentialsMatch(username, password) ==
    \E a \in Admins : a.username = username /\ check_password_hash(a.password_hash, password)

\* the session after a successful login
LoggedIn(sess, username) == Put(Put(sess, "admin_logged_in", TRUE), "admin_username", username)

\* variant: only the display name is dropped
LoggedOutNameOnly(sess) == Pop(sess, "admin_username")

\* the session after admin_logout
LoggedOut(sess) == Pop(Pop(sess, "admin_logged_in"), "admin_username")

\* POST /admin/login
AdminLogin(s, form_username, password) ==
    LET username == Strip(form_username)
    IN  IF username = <<>> \/ password = ""
        THEN /\ response' = Resp("admin_login", s, 0, "admin_login.html", <<MsgEnterBoth>>)
             /\ UNCHANGED <<crew, staff, session, uploads, now>>
        ELSE IF CredentialsMatch(username, password)
        THEN /\ session' = [session EXCEPT ![s] = LoggedIn(@, username)]
             /\ response' = Resp("admin_login", s, 0, "redirect:dashboard", <<"Welcome back!">>)
             /\ UNCHANGED <<crew, staff, uploads, now>>
        ELSE /\ response' = Resp("admin_login", s, 0, "admin_login.html", <<MsgInvalidLogin>>)
             /\ UNCHANGED <<crew, staff, session, uploads, now>>

\* GET /admin/login
AdminLoginForm(s) ==
    /\ response' = Resp("admin_login_form", s, 0,
                        IF is_admin_logged_in(session[s])
                        THEN "redirect:dashboard" ELSE "admin_login.html", <<>>)
    /\ UNCHANGED <<crew, staff, session, uploads, now>>

\* GET /admin/logout
AdminLogout(s) ==
    /\ session' = [session EXCEPT ![s] = LoggedOut(@)]
    /\ response' = Resp("admin_logout", s, 0, "redirect:public_home",
                        <<"You have been logged out successfully.">>)
    /\ UNCHANGED <<crew, staff, uploads, now>>

(* ---------------------------- public handlers --------------------------- *)

\* POST /track
Track(form_passport) ==
    LET passport == Upper(Strip(form_passport))
        found    == CrewByPassport(passport)
    IN  /\ response' =
              IF passport = <<>>
              THEN Resp("track", NoSession, 0, "tracker.html", <<"Please enter a passport number.">>)
              ELSE IF found # {}
              THEN Resp("track", NoSession, SetMin(found), "tracker.html", <<>>)
              ELSE Resp("track", NoSession, 0, "tracker.html",
                        <<"No crew member found with this passport number.">>)
        /\ UNCHANGED <<crew, staff, session, uploads, now>>

FileNameInputs == {u.name : u \in uploads} \cup {<<"x",".","p","d","f">>}

\* the response is sent to the client and the next request can be served
Deliver ==
    /\ response # NoResponse
    /\ response' = NoResponse
    /\ UNCHANGED <<crew, staff, session, uploads, now, txn>>

\* no response is waiting to be sent, and serving the request leaves the
\* requests in flight as they are
Idle == response = NoResponse /\ UNCHANGED txn

\* requests are served one after the other, each routed to its handler
Next ==
    \/ \E form \in CrewForms : Idle /\ Register(form)
    \/ Idle /\ RegisterForm
    \/ \E form \in StaffForms : Idle /\ RegisterStaff(form)
    \/ \E s \in Sessions : Idle /\ Dashboard(s)
    \/ \E s \in Sessions, folder \in {"crew", "staff"}, filename \in FileNameInputs :
           Idle /\ DownloadFile(s, folder, filename)
    \/ \E s \in Sessions, crew_id \in CrewIdInputs : Idle /\ UpdateStatus(s, crew_id)
    \/ \E s \in Sessions, crew_id \in CrewIdInputs : Idle /\ CrewProfile(s, crew_id)
    \/ \E s \in Sessions, staff_id \in StaffIdInputs : Idle /\ StaffProfile(s, staff_id)
    \/ \E s \in Sessions, crew_id \in CrewIdInputs : Idle /\ ApproveCrew(s, crew_id)
    \/ \E s \in Sessions, crew_id \in CrewIdInputs : Idle /\ RejectCrew(s, crew_id)
    \/ \E s \in Sessions, staff_id \in StaffIdInputs : Idle /\ ApproveStaff(s, staff_id)
    \/ \E s \in Sessions, staff_id \in StaffIdInputs : Idle /\ RejectStaff(s, staff_id)
    \/ \E s \in Sessions, u \in UsernameInputs, p \in PasswordInputs :
           Idle /\ AdminLogin(s, u, p)
    \/ \E s \in Sessions : Idle /\ AdminLoginForm(s)
    \/ \E s \in Sessions : Idle /\ AdminLogout(s)
    \/ \E p \in PassportInputs : Idle /\ Track(p)
    \/ Deliver

\* requests served within one clock second
Spec == Init /\ [][Next]_vars

\* the forms registered while the clock advances
TimedCrewForms == {BaseCrewForm}

TimedStaffForms == {BaseStaffForm}

NextTimed ==
    \/ \E form \in TimedCrewForms : Idle /\ Register(form)
    \/ \E form \in TimedStaffForms : Idle /\ RegisterStaff(form)
    \/ \E s \in Sessions : Idle /\ Dashboard(s)
    \/ \E s \in Sessions, crew_id \in CrewIdInputs : Idle /\ UpdateStatus(s, crew_id)
    \/ \E s \in Sessions, crew_id \in CrewIdInputs : Idle /\ ApproveCrew(s, crew_id)
    \/ \E s \in Sessions, crew_id \in CrewIdInputs : Idle /\ RejectCrew(s, crew_id)
    \/ \E s \in Sessions, staff_id \in StaffIdInputs : Idle /\ ApproveStaff(s, staff_id)
    \/ \E s \in Sessions, staff_id \in StaffIdInputs : Idle /\ RejectStaff(s, staff_id)
    \/ \E s \in Sessions : Idle /\ AdminLogin(s, AdminName, "admin123")
    \/ \E s \in Sessions : Idle /\ AdminLogout(s)
    \/ \E s \in Sessions : Idle /\ AdminLoginForm(s)
    \/ Idle /\ RegisterForm
    \/ \E s \in Sessions, folder \in {"crew", "staff"}, filename \in FileNameInputs :
           Idle /\ DownloadFile(s, folder, filename)
    \/ \E s \in Sessions, crew_id \in CrewIdInputs : Idle /\ CrewProfile(s, crew_id)
    \/ \E s \in Sessions, staff_id \in StaffIdInputs : Idle /\ StaffProfile(s, staff_id)
    \/ \E p \in PassportInputs : Idle /\ Track(p)
    \/ Idle /\ Tick
    \/ Deliver

\* one client's requests served while the clock advances between them
SpecTimed == InitWith({"s1"}) /\ [][NextTimed]_vars

(* ------------------------ requests served at once ----------------------- *)

CrewTxnOps == {"update_status", "approve_crew", "reject_crew"}

StaffTxnOps == {"approve_staff", "reject_staff"}

\* variant: an advance past the last stage starts over at the first
AssignedStatusRewinding(op, loaded) ==
    CASE op = "update_status" -> (loaded + 1) % Len(status_stages)
      [] op \in {"approve_crew", "approve_staff"} -> ApprovedStatus
      [] op \in {"reject_crew", "reject_staff"} -> RejectedStatus

\* the status the handler assigns to the row it loaded
AssignedStatus(op, loaded) ==
    CASE op = "update_status" -> IF CanAdvance(loaded) THEN AdvancedStatus(loaded) ELSE loaded
      [] op \in {"approve_crew", "approve_staff"} -> ApprovedStatus
      [] op \in {"reject_crew", "reject_staff"} -> RejectedStatus

\* the handler reaches db.session.commit()
CallsCommit(op, loaded) == op = "update_status" => CanAdvance(loaded)

\* the message flashed after the commit
CommittedFlash(op, loaded) ==
    CASE op = "update_status" ->
             IF ~CanAdvance(loaded) THEN MsgAlreadyFinal
             ELSE IF StageLabel(AssignedStatus(op, loaded)).ok
             THEN "Status updated to " \o StageLabel(AssignedStatus(op, loaded)).val
             ELSE MsgUpdateError
      [] op = "approve_crew"  -> "Crew member has been approved!"
      [] op = "reject_crew"   -> "Crew member has been rejected."
      [] op = "approve_staff" -> "Staff member has been approved!"
      [] op = "reject_staff"  -> "Staff member has been rejected."

\* variant: the UPDATE is applied only while the stored status is the one read
CommittedStatusIfUnchanged(stored, loaded, assigned) ==
    IF stored = loaded THEN assigned ELSE stored

\* the stored status after the commit: the UPDATE sets the assigned value,
\* whatever is stored by then; no UPDATE is issued for a value equal to the
\* one loaded
CommittedStatus(stored, loaded, assigned) ==
    IF assigned = loaded THEN stored ELSE assigned

CommittedRow(row, loaded, assigned, t) ==
    IF assigned = loaded THEN row
    ELSE [row EXCEPT !.status = CommittedStatus(row.status, loaded, assigned), !.updated_at = t]

\* variant: the failed commit leaves the flushed UPDATE in place
FailedCommitStatusFlushed(stored, loaded, assigned) ==
    CommittedStatus(stored, loaded, assigned)

\* the stored status after a failed commit: the transaction is rolled back
FailedCommitStatus(stored, loaded, assigned) == stored

\* the handler passes the admin gate and loads the row: get_or_404
Begin(w, op, s, id) ==
    LET rows == IF op \in CrewTxnOps THEN crew ELSE staff
    IN  /\ response = NoResponse
        /\ txn[w] = NoTxn
        /\ IF require_admin(session[s]) # None
           THEN Unauthenticated(op, s, id) /\ UNCHANGED txn
           ELSE IF id \notin 1..Len(rows)
           THEN /\ response' = IF op = "update_status"
                               THEN Resp(op, s, id, "redirect:dashboard", <<MsgUpdateError>>)
                               ELSE Resp(op, s, id, "404", <<>>)
                /\ UNCHANGED <<crew, staff, session, uploads, now, txn>>
           ELSE /\ txn' = [txn EXCEPT ![w] = Txn(op, s, id, rows[id].status)]
                /\ UNCHANGED <<crew, staff, session, uploads, now, response>>

\* the handler assigns the status, commits and redirects to the dashboard
Commit(w) ==
    LET t        == txn[w]
        assigned == AssignedStatus(t.op, t.loaded)
    IN  /\ response = NoResponse
        /\ t.op \in CrewTxnOps \cup StaffTxnOps
        /\ IF t.op \in CrewTxnOps
           THEN /\ crew' = [crew EXCEPT ![t.id] = CommittedRow(@, t.loaded, assigned, now)]
                /\ UNCHANGED staff
           ELSE /\ staff' = [staff EXCEPT ![t.id] = CommittedRow(@, t.loaded, assigned, now)]
                /\ UNCHANGED crew
        /\ response' = Resp(t.op, t.sid, t.id, "redirect:dashboard", <<CommittedFlash(t.op, t.loaded)>>)
        /\ txn' = [txn EXCEPT ![w] = NoTxn]
        /\ UNCHANGED <<session, uploads, now>>

\* db.session.commit() raises: update_status rolls back and flashes its error
\* message, the other handlers end in an unhandled exception and the session
\* is discarded with the request
FailCommit(w) ==
    LET t        == txn[w]
        assigned == AssignedStatus(t.op, t.loaded)
        Failed(row) == [row EXCEPT !.status = FailedCommitStatus(@, t.loaded, assigned)]
    IN  /\ response = NoResponse
        /\ t.op \in CrewTxnOps \cup StaffTxnOps
        /\ CallsCommit(t.op, t.loaded)
        /\ IF t.op \in CrewTxnOps
           THEN /\ crew' = [crew EXCEPT ![t.id] = Failed(@)]
                /\ UNCHANGED staff
           ELSE /\ staff' = [staff EXCEPT ![t.id] = Failed(@)]
                /\ UNCHANGED crew
        /\ response' = IF t.op = "update_status"
                       THEN Resp(t.op, t.sid, t.id, "redirect:dashboard", <<MsgUpdateError>>)
                       ELSE Resp(t.op, t.sid, t.id, "500", <<>>)
        /\ txn' = [txn EXCEPT ![w] = NoTxn]
        /\ UNCHANGED <<session, uploads, now>>

\* a crew registration in flight: the form whose duplicate lookup found nothing
RegisterTxn(form) ==
    [op |-> "register", sid |-> NoSession, id |-> 0, loaded |-> 0, form |-> form]

\* POST /register up to and including the duplicate lookup
BeginRegister(w, form) ==
    /\ response = NoResponse
    /\ txn[w] = NoTxn
    /\ IF PassesLookup(form)
       THEN /\ txn' = [txn EXCEPT ![w] = RegisterTxn(form)]
            /\ UNCHANGED <<crew, staff, session, uploads, now, response>>
       ELSE Register(form) /\ UNCHANGED txn

\* POST /register after the duplicate lookup
CommitRegister(w) ==
    /\ response = NoResponse
    /\ txn[w].op = "register"
    /\ RegisterAfterLookup(txn[w].form)
    /\ txn' = [txn EXCEPT ![w] = NoTxn]

\* the forms registered while requests overlap: one passport, typed two ways
ConcurrentCrewForms ==
    {BaseCrewForm, [BaseCrewForm EXCEPT !.passport = <<"A","B","1">>]}

ConcurrentStaffForms == {BaseStaffForm}

NextConcurrent ==
    \/ \E w \in Workers, form \in ConcurrentCrewForms : BeginRegister(w, form)
    \/ \E w \in Workers : CommitRegister(w)
    \/ \E form \in ConcurrentStaffForms : Idle /\ RegisterStaff(form)
    \/ \E s \in Sessions : Idle /\ AdminLogin(s, AdminName, "admin123")
    \/ \E w \in Workers, op \in CrewTxnOps, s \in Sessions, crew_id \in CrewIdInputs :
           Begin(w, op, s, crew_id)
    \/ \E w \in Workers, op \in StaffTxnOps, s \in Sessions, staff_id \in StaffIdInputs :
           Begin(w, op, s, staff_id)
    \/ \E w \in Workers : Commit(w)
    \/ \E w \in Workers : FailCommit(w)
    \/ Deliver

\* one client's status requests served by two workers at once
SpecConcurrent == InitWith({"s1"}) /\ [][NextConcurrent]_vars

(* ---------------------------- status labels ----------------------------- *)

status_names == <<"Registered", "Screening", "Documents Verified", "Approved">>

\* the lookup without its lower bound: a negative status indexes from the end
get_status_name_unfloored(status) ==
    IF status < Len(status_names)
    THEN status_names[(status % Len(status_names)) + 1]
    ELSE "Unknown"

\* CrewMember.get_status_name
get_status_name(status) ==
    IF 0 <= status /\ status < Len(status_names)
    THEN status_names[status + 1]
    ELSE "Unknown"

\* the status values get_status_name is called on
StatusInputs == {-99, -2, -1, 0, 1, 2, 3, 4, 5, 99}

\* crew.get_status_name() on a row whose status column holds the given value
GetStatusName(status) ==
    /\ response' = Resp("get_status_name", NoSession, status, get_status_name(status), <<>>)
    /\ UNCHANGED <<crew, staff, session, uploads, now>>

\* the requests served, with label lookups between them
SpecLabels ==
    Init /\ [][Next \/ \E status \in StatusInputs : Idle /\ GetStatusName(status)]_vars

(* --------------------------- the store alone ---------------------------- *)

\* the original names of the files handed to save_uploaded_file
StoreFileNames ==
    { <<"m","a","l","w","a","r","e",".","e","x","e">>,
      <<"s","c","a","n",".","P","D","F">>,
      <<>>,
      <<"c","v">>,
      <<"p","d","f">>,
      <<"a",".">>,
      <<".","p","d","f">>,
      <<"a",".","p","d","f",".","e","x","e">>,
      <<"a",".","e","x","e",".","J","p","e","g">>,
      <<"x",".","p","d","f","x">>,
      <<"x",".","d","o","c">>,
      <<"x",".","d","o","c","x">>,
      <<"x",".","j","p","g">>,
      <<"x",".","p","n","g">> }

StoreFiles == {None} \cup {Upload(n, c) : n \in StoreFileNames, c \in {"blob1", "blob2"}}

StoreFolders == {"crew"}

StorePrefixes == { <<"J","_","D","_","r","e","s","u","m","e">> }

\* a finished call of save_uploaded_file: its arguments and what it returned
StoreCall(file, folder, prefix, returned) ==
    [ op       |-> "save_uploaded_file",
      sid      |-> NoSession,
      id       |-> 0,
      result   |-> IF returned = None THEN "None" ELSE "safe_filename",
      flash    |-> <<>>,
      file     |-> file,
      folder   |-> folder,
      prefix   |-> prefix,
      returned |-> returned ]

\* one call of save_uploaded_file(file, folder, prefix)
StoreFile(file, folder, prefix) ==
    /\ Cardinality(SavedUploads(uploads, file, folder, prefix, now)) <= MaxUploads
    /\ uploads' = SavedUploads(uploads, file, folder, prefix, now)
    /\ response' = StoreCall(file, folder, prefix, save_uploaded_file(file, folder, prefix, now))
    /\ UNCHANGED <<crew, staff, session, now, txn>>

NextStore ==
    \/ \E file \in StoreFiles, folder \in StoreFolders, prefix \in StorePrefixes :
           StoreFile(file, folder, prefix)
    \/ Tick

\* calls of save_uploaded_file while the clock advances
SpecStore == InitWith({}) /\ [][NextStore]_vars

(* ------------------------------ properties ------------------------------ *)

AdminOps ==
    { "dashboard", "download_file", "update_status", "crew_profile", "staff_profile",
      "approve_crew", "reject_crew", "approve_staff", "reject_staff" }

CrewStatuses == {-1, 0, 1, 2, 3}

StaffStatuses == {-1, 1, 3}

\* the step is a request op made by a logged-in session on the existing row i
AdminStepOn(op, i, rows) ==
    /\ response'.op = op
    /\ response'.id = i
    /\ i \in 1..Len(rows)
    /\ is_admin_logged_in(session[response'.sid])

PassportsUpperAndUnique ==
    /\ \A i \in 1..Len(crew) : crew[i].passport = Upper(crew[i].passport)
    /\ \A i, j \in 1..Len(crew) : i # j => crew[i].passport # crew[j].passport

PassportTaken(form) ==
    \E i \in 1..Len(crew) : crew[i].passport = Upper(Strip(form.passport))

RejectedAsDuplicate ==
    /\ response'.flash = <<MsgDuplicate>>
    /\ response'.result = "register.html"
    /\ crew' = crew

\* C1 (as stated): stored passports are upper-case and unique, and every
\* registration whose trimmed, upper-cased passport is already stored fails
\* with the duplicate-passport message and adds no record
C1_DuplicateAlwaysReported ==
    /\ [] PassportsUpperAndUnique
    /\ [][response'.op = "register" =>
              \A form \in CrewForms :
                  (PassportTaken(form) /\ Register(form)) => RejectedAsDuplicate]_vars

\* C1 (amended): stored passports are upper-case and unique; a registration
\* whose trimmed, upper-cased passport is already stored adds no record, and
\* fails with the duplicate-passport message when its name and rank are
\* non-empty after trimming (with the required-fields message otherwise)
C1_PassportUnique ==
    /\ [] PassportsUpperAndUnique
    /\ [][response'.op = "register" =>
              \A form \in CrewForms :
                (PassportTaken(form) /\ Register(form)) =>
                  /\ crew' = crew
                  /\ response'.result = "register.html"
                  /\ IF Strip(form.name) # <<>> /\ Strip(form.rank) # <<>>
                     THEN response'.flash = <<MsgDuplicate>>
                     ELSE response'.flash = <<MsgRequired>>]_vars

C1_Witness ==
    /\ response.op = "register"
    /\ response.flash = <<MsgDuplicate>>
    /\ Len(crew) = 2
    /\ crew[1].passport = <<"A","B","1">>

\* C2: an advance request leaves every rejected crew record (status -1)
\* at status -1
C2_RejectedImmutableToAdvance ==
    [][\A i \in 1..Len(crew) :
           (response'.op = "update_status" /\ crew[i].status = -1) => crew'[i].status = -1]_vars

\* C3: an admin operation requested by a session that is not logged in is
\* answered with the redirect to login and changes nothing, and a stored
\* status changes only in a step requested by a logged-in session
C3_AdminGate ==
    [][/\ (response'.op \in AdminOps /\ ~is_admin_logged_in(session[response'.sid])) =>
              /\ response'.result = "redirect:admin_login"
              /\ UNCHANGED <<crew, staff, session, uploads>>
       /\ (\/ \E i \in 1..Len(crew) : crew'[i].status # crew[i].status
           \/ \E i \in 1..Len(staff) : staff'[i].status # staff[i].status) =>
              /\ response'.op \in AdminOps
              /\ is_admin_logged_in(session[response'.sid])]_vars

C3_Witness ==
    /\ response.op = "approve_crew"
    /\ response.id \in 1..Len(crew)
    /\ response.result = "redirect:admin_login"
    /\ ~is_admin_logged_in(session[response.sid])
    /\ \E s \in Sessions : is_admin_logged_in(session[s])

\* C4: every crew record's status is one of -1, 0, 1, 2, 3
C4_CrewStatusDomain ==
    \A i \in 1..Len(crew) : crew[i].status \in CrewStatuses

C4_Witness ==
    /\ response.op = "update_status"
    /\ response.id \in 1..Len(crew)
    /\ response.flash = <<MsgAlreadyFinal>>
    /\ \E i \in 1..Len(crew) : crew[i].status = -1

\* C5: an advance by a logged-in admin moves a crew record at status 0, 1 or
\* 2 up by exactly one, and leaves a record at status 3 at 3, reporting
\* 'already final' on the ordinary redirect to the dashboard
C5_AdvanceSequence ==
    [][\A i \in 1..Len(crew) :
           AdminStepOn("update_status", i, crew) =>
               /\ crew[i].status \in {0, 1, 2} => crew'[i].status = crew[i].status + 1
               /\ crew[i].status = 3 =>
                      /\ crew'[i].status = 3
                      /\ response'.flash = <<MsgAlreadyFinal>>
                      /\ response'.result = "redirect:dashboard"
               /\ crew'[i].status <= 3]_vars

C5_Witness ==
    /\ response.op = "update_status"
    /\ response.id \in 1..Len(crew)
    /\ response.flash = <<"Status updated to Approved">>
    /\ crew[response.id].status = 3

\* C6: an approve by a logged-in admin leaves the crew record at status 3,
\* whatever its status was (rejected included)
C6_ApproveForcesApproved ==
    [][\A i \in 1..Len(crew) :
           (AdminStepOn("approve_crew", i, crew) /\ crew[i].status \in CrewStatuses) =>
               /\ crew'[i].status = 3
               /\ response'.result = "redirect:dashboard"]_vars

C6_Witness ==
    /\ response.op = "approve_crew"
    /\ response.id \in 1..Len(crew)
    /\ response.result = "redirect:dashboard"
    /\ crew[response.id].status = 3

\* C7: a reject by a logged-in admin leaves the crew record at status -1,
\* whatever its status was (approved included)
C7_RejectForcesRejected ==
    [][\A i \in 1..Len(crew) :
           (AdminStepOn("reject_crew", i, crew) /\ crew[i].status \in CrewStatuses) =>
               /\ crew'[i].status = -1
               /\ response'.result = "redirect:dashboard"]_vars

C7_Witness ==
    /\ response.op = "reject_crew"
    /\ response.id \in 1..Len(crew)
    /\ response.result = "redirect:dashboard"
    /\ crew[response.id].status = -1

\* the seeded credentials, the user name read after trimming
ValidLogin(username, password) == Strip(username) = AdminName /\ password = "admin123"

\* the logged-in flag of a session goes up only in a login with valid credentials
FlagSetOnlyByValidLogin ==
    \A s \in Sessions :
        (~is_admin_logged_in(session[s]) /\ is_admin_logged_in(session'[s])) =>
            /\ response'.op = "admin_login"
            /\ response'.sid = s
            /\ \E u \in UsernameInputs, p \in PasswordInputs :
                   ValidLogin(u, p) /\ AdminLogin(s, u, p)

\* C8 (as stated): every login attempt whose user name is unknown or whose
\* password does not match fails with the invalid-credentials message and
\* leaves the session as it was; the flag is set only by a valid login
C8_InvalidLoginAlwaysInvalidCredentials ==
    [][/\ response'.op = "admin_login" =>
              \A s \in Sessions, u \in UsernameInputs, p \in PasswordInputs :
                  (~ValidLogin(u, p) /\ AdminLogin(s, u, p)) =>
                      /\ response'.flash = <<MsgInvalidLogin>>
                      /\ session' = session
       /\ FlagSetOnlyByValidLogin]_vars

\* C8 (amended): a login attempt whose user name is unknown or whose password
\* does not match leaves the session as it was and re-renders the login
\* form, with the invalid-credentials message when the trimmed user name and
\* the password are both non-empty and with the enter-both message
\* otherwise; the flag is set only by a valid login
C8_InvalidLoginRejected ==
    [][/\ response'.op = "admin_login" =>
              \A s \in Sessions, u \in UsernameInputs, p \in PasswordInputs :
                  (~ValidLogin(u, p) /\ AdminLogin(s, u, p)) =>
                      /\ response'.result = "admin_login.html"
                      /\ response'.flash = IF Strip(u) = <<>> \/ p = ""
                                           THEN <<MsgEnterBoth>> ELSE <<MsgInvalidLogin>>
                      /\ session' = session
       /\ FlagSetOnlyByValidLogin]_vars

C8_Witness ==
    /\ response.op = "admin_login"
    /\ response.flash = <<MsgInvalidLogin>>
    /\ ~is_admin_logged_in(session[response.sid])

\* C9: after a logout the session is not logged in, whatever it was before,
\* and a further logout would leave that session as it is; the other
\* sessions and the records are untouched
C9_LogoutIdempotent ==
    [][\A s \in Sessions :
           (response'.op = "admin_logout" /\ response'.sid = s) =>
               /\ ~is_admin_logged_in(session'[s])
               /\ "admin_logged_in" \notin DOMAIN session'[s]
               /\ LoggedOut(session'[s]) = session'[s]
               /\ \A t \in Sessions \ {s} : session'[t] = session[t]
               /\ UNCHANGED <<crew, staff, uploads>>]_vars

C9_Witness ==
    /\ response.op = "admin_logout"
    /\ ~is_admin_logged_in(session[response.sid])
    /\ Len(crew) > 0

\* C10: a staff record is created with status 1 and every staff record's
\* status is one of -1, 1, 3
C10_StaffStatusDomain ==
    /\ [] (\A i \in 1..Len(staff) : staff[i].status \in StaffStatuses)
    /\ [][Len(staff') > Len(staff) => staff'[Len(staff')].status = 1]_vars

C10_Witness ==
    /\ response.op = "update_status"
    /\ response.id \in 1..Len(staff)
    /\ response.flash = <<"Status updated to Screening">>
    /\ staff[response.id].status = 1

CrewIdOps == {"update_status", "approve_crew", "reject_crew", "crew_profile"}

StaffIdOps == {"approve_staff", "reject_staff", "staff_profile"}

\* the step is a request by a logged-in session that names a missing row
MissingIdStep ==
    /\ response'.op \in CrewIdOps \cup StaffIdOps
    /\ is_admin_logged_in(session[response'.sid])
    /\ response'.op \in CrewIdOps => response'.id \notin 1..Len(crew)
    /\ response'.op \in StaffIdOps => response'.id \notin 1..Len(staff)

\* C11: an advance, approve, reject or profile request by a logged-in admin
\* that names an id with no record is answered with the standard not-found
\* response and changes no record
C11_MissingIdNotFound ==
    [][MissingIdStep => (response'.result = "404" /\ UNCHANGED <<crew, staff>>)]_vars

RequiredMissing(form) ==
    Strip(form.name) = <<>> \/ Strip(form.rank) = <<>> \/ Strip(form.passport) = <<>>

Unparsable(form) ==
    \/ form.date_of_birth # <<>> /\ ~ParseDate(form.date_of_birth).ok
    \/ form.availability_date # <<>> /\ ~ParseDate(form.availability_date).ok
    \/ form.years_experience # <<>> /\ ~ParseInt(form.years_experience).ok

FailsValidation ==
    /\ response'.result = "register.html"
    /\ response'.flash \in {<<MsgRequired>>, <<MsgBadFormat>>}
    /\ UNCHANGED <<crew, uploads>>

AddsOneRegistered ==
    /\ Len(crew') = Len(crew) + 1
    /\ SubSeq(crew', 1, Len(crew)) = crew
    /\ crew'[Len(crew')].status = 0
    /\ response'.result = "thankyou.html"

\* C12 as stated: a crew registration fails validation, adding no record and
\* storing no file, whenever a required field is empty after trimming or a
\* supplied date or years value cannot be parsed; any other registration with
\* a passport not yet stored adds exactly one record with status 0
C12_InvalidAlwaysValidationError ==
    [][response'.op = "register" =>
          \A form \in CrewForms :
            Register(form) =>
              IF RequiredMissing(form) \/ Unparsable(form)
              THEN FailsValidation
              ELSE ~PassportTaken(form) => AddsOneRegistered]_vars

\* C12 (amended): a crew registration fails validation, adding no record and
\* storing no file, whenever a required field is empty after trimming, or its
\* passport is not yet stored and a supplied date or years value cannot be
\* parsed; an unparsable form whose passport is already stored is refused as a
\* duplicate instead, also adding no record and storing no file; any other
\* registration with a passport not yet stored adds exactly one record with
\* status 0
C12_ValidationBeforeInsert ==
    [][response'.op = "register" =>
          \A form \in CrewForms :
            Register(form) =>
              IF RequiredMissing(form) \/ (Unparsable(form) /\ ~PassportTaken(form))
              THEN FailsValidation
              ELSE IF Unparsable(form)
              THEN RejectedAsDuplicate /\ uploads' = uploads
              ELSE ~PassportTaken(form) => AddsOneRegistered]_vars

C12_Witness ==
    /\ response.op = "register"
    /\ response.flash = <<MsgBadFormat>>
    /\ uploads = {}
    /\ Len(crew) = 1
    /\ crew[1].status = 0

YearsAbsentOrNatural(row) ==
    row.years_experience = None \/ row.years_experience[1] >= 0

\* C13: the years of experience of every stored crew and staff record are
\* absent or an integer that is at least 0
C13_YearsNonNegative ==
    /\ \A i \in 1..Len(crew) : YearsAbsentOrNatural(crew[i])
    /\ \A i \in 1..Len(staff) : YearsAbsentOrNatural(staff[i])

AllowedExtensionNames == {"pdf", "doc", "docx", "jpg", "jpeg", "png"}

\* the text of a sequence of lower-case characters
RECURSIVE Text(_)
Text(chars) == IF chars = <<>> THEN "" ELSE chars[1] \o Text(Tail(chars))

\* the name has a last '.', and what follows it is, in lower case, an allowed
\* extension
HasAllowedExtension(filename) ==
    \E k \in 1..Len(filename) :
        /\ filename[k] = "."
        /\ \A j \in (k + 1)..Len(filename) : filename[j] # "."
        /\ Text(Lower(SubSeq(filename, k + 1, Len(filename)))) \in AllowedExtensionNames

\* C14: save_uploaded_file returns nothing and leaves the upload directory as
\* it was exactly when the original name has no '.' or the text after its
\* last '.' is, ignoring case, none of pdf, doc, docx, jpg, jpeg, png; any
\* other file is stored with its content under the name returned
C14_StoreRejectsExactlyDisallowed ==
    [][(response'.op = "save_uploaded_file" /\ response'.file # None) =>
          IF HasAllowedExtension(response'.file[1].filename)
          THEN /\ response'.returned # None
               /\ \E u \in uploads' :
                      /\ u.folder = response'.folder
                      /\ u.name = response'.returned[1]
                      /\ u.content = response'.file[1].content
          ELSE /\ response'.returned = None
               /\ uploads' = uploads]_vars

\* "scan.PDF" has been stored and "malware.exe" has then been refused
C14_Witness ==
    /\ response.op = "save_uploaded_file"
    /\ response.file = Upload(<<"m","a","l","w","a","r","e",".","e","x","e">>, "blob1")
    /\ response.returned = None
    /\ \E u \in uploads : u.content = "blob2" /\ SubSeq(u.name, Len(u.name) - 3, Len(u.name)) = <<".","P","D","F">>

CrewFileFields == {"passport_file", "cdc_file", "resume_file", "photo_file"}

StaffFileFields == {"resume_file", "photo_file"}

\* an attachment whose name has no allowed extension
Disallowed(file) == file # None /\ ~HasAllowedExtension(file[1].filename)

\* the form as it would be had no disallowed attachment been supplied
WithoutDisallowed(form, fields) ==
    [f \in DOMAIN form |-> IF f \in fields /\ Disallowed(form[f]) THEN None ELSE form[f]]

\* C15: a crew or staff registration carrying an attachment with a disallowed
\* or missing extension is handled exactly as if that attachment had not been
\* supplied: when it is otherwise valid the record is stored, with that file
\* reference empty, and no error is reported
C15_DisallowedAttachmentIgnored ==
    [][/\ response'.op = "register" =>
              \A form \in CrewForms :
                Register(form) =>
                  /\ Register(WithoutDisallowed(form, CrewFileFields))
                  /\ response'.result = "thankyou.html" =>
                         \A f \in CrewFileFields :
                             Disallowed(form[f]) => crew'[Len(crew')][f] = None
       /\ response'.op = "register_staff" =>
              \A form \in StaffForms :
                RegisterStaff(form) =>
                  /\ RegisterStaff(WithoutDisallowed(form, StaffFileFields))
                  /\ response'.result = "thankyou_staff.html" =>
                         \A f \in StaffFileFields :
                             Disallowed(form[f]) => staff'[Len(staff')][f] = None]_vars

C15_Witness ==
    /\ response.op = "register_staff"
    /\ response.result = "thankyou_staff.html"
    /\ staff[1].resume_file # None
    /\ staff[1].photo_file = None
    /\ \E i \in 1..Len(crew) :
           /\ crew[i].passport_file # None
           /\ crew[i].cdc_file = None
           /\ crew[i].photo_file = None
    /\ Cardinality(uploads) = 2

LabelOf(status) ==
    CASE status = 0 -> "Registered"
      [] status = 1 -> "Screening"
      [] status = 2 -> "Documents Verified"
      [] status = 3 -> "Approved"
      [] OTHER      -> "Unknown"

\* C16: the crew label lookup answers every integer status: the stage name
\* for 0, 1, 2 and 3 and "Unknown" for -1 and any other value; and every
\* advance that changes a record looks its label up at a status in 0..3
C16_LabelLookupTotal ==
    /\ [][response'.op = "get_status_name" => response'.result = LabelOf(response'.id)]_vars
    /\ [][(response'.op = "update_status" /\ crew' # crew) =>
              \A i \in 1..Len(crew) :
                  crew'[i] # crew[i] =>
                      /\ crew'[i].status \in 0..3
                      /\ response'.flash = <<"Status updated to " \o LabelOf(crew'[i].status)>>]_vars

C16_Witness ==
    /\ response.op = "get_status_name"
    /\ response.id = -1
    /\ response.result = "Unknown"
    /\ \E i \in 1..Len(crew) : crew[i].status = -1
    /\ \E i \in 1..Len(crew) : crew[i].status = 2

\* C17: status requests on one crew record are served without a lock, and a
\* commit that writes stores the status computed from the row as it was
\* read, whatever has been stored since: an advance that read s < 3 leaves
\* s + 1 (also when another advance has stored s + 1 meanwhile, so that one
\* increment is lost), an approve that did not read 3 leaves 3, and a reject
\* that did not read -1 leaves -1
C17_LastWriteWins ==
    [][\A w \in Workers :
          (txn[w].op \in CrewTxnOps /\ Commit(w)) =>
              /\ (txn[w].op = "update_status" /\ txn[w].loaded < 3) =>
                     crew'[txn[w].id].status = txn[w].loaded + 1
              /\ (txn[w].op = "approve_crew" /\ txn[w].loaded # 3) =>
                     crew'[txn[w].id].status = 3
              /\ (txn[w].op = "reject_crew" /\ txn[w].loaded # -1) =>
                     crew'[txn[w].id].status = -1]_vars

\* two advances read status 0; one has committed 1, the other is about to
\* commit 1 again
C17_Witness ==
    /\ response = NoResponse
    /\ Len(crew) = 1
    /\ crew[1].status = 1
    /\ txn["w1"] = NoTxn
    /\ txn["w2"] = Txn("update_status", "s1", 1, 0)

\* C18: when the commit of an advance, approve or reject fails, no crew or
\* staff record changes, the request's pending change is discarded with it,
\* and the failure is reported without detail: by the update-error message
\* for an advance, by the server-error response for the others
C18_FailedCommitRolledBack ==
    [][\A w \in Workers :
          (txn[w] # NoTxn /\ FailCommit(w)) =>
              /\ UNCHANGED <<crew, staff>>
              /\ txn'[w] = NoTxn
              /\ response'.op = txn[w].op
              /\ IF txn[w].op = "update_status"
                 THEN response'.flash = <<MsgUpdateError>>
                 ELSE response'.result = "500" /\ response'.flash = <<>>]_vars

C18_Witness ==
    /\ response.op = "approve_crew"
    /\ response.result = "500"
    /\ response.id = 1
    /\ Len(crew) = 1
    /\ crew[1].status = 0
    /\ Len(staff) = 1
    /\ staff[1].status = 1
    /\ txn["w1"] = NoTxn
    /\ txn["w2"] = Txn("reject_staff", "s1", 1, 1)

\* C19: every accepted call of save_uploaded_file returns a name under which
\* nothing is stored yet in its folder, so that no stored file is overwritten,
\* also when the prefix, the original name and the clock second are those of
\* an earlier call
C19_StoredNamesUnique ==
    [][(response'.op = "save_uploaded_file" /\ response'.returned # None) =>
          \A u \in uploads :
              ~(u.folder = response'.folder /\ u.name = response'.returned[1])]_vars

StatusOps == CrewTxnOps \cup StaffTxnOps

\* the row apart from its status and updated_at
Frozen(row) == [row EXCEPT !.status = 0, !.updated_at = 0]

\* every row of before is still there, the same apart from status and updated_at
RowsKept(before, after) ==
    /\ Len(after) >= Len(before)
    /\ \A i \in 1..Len(before) : Frozen(after[i]) = Frozen(before[i])

\* only the row the step names may differ
OnlyNamedRowChanges(before, after, named) ==
    /\ Len(after) = Len(before)
    /\ \A i \in 1..Len(before) : i \notin named => after[i] = before[i]

Lowered(i) == crew'[i].status < crew[i].status

\* a request in flight on crew record i read a status that is no longer stored
StaleRead(i, op) ==
    \E w \in Workers : txn[w].op = op /\ txn[w].id = i /\ txn[w].loaded # crew[i].status

\* C21 as stated: the status of a crew record goes down only in a reject
\* step, which sets it to -1
C21_OnlyRejectLowers ==
    [][\A i \in 1..Len(crew) :
           Lowered(i) => (response'.op = "reject_crew" /\ crew'[i].status = -1)]_vars

\* C21 (amended): an advance or approve either leaves the stored status of
\* the record as it is or stores a status at or above the one the request
\* read, hence never a lower one when nothing else was committed on the
\* record since that read; the status of a crew record goes down only in a
\* reject step, which sets it to -1, or in an advance step that commits a
\* status computed from a read made before another request's commit
C21_LowersOnlyByRejectOrStaleAdvance ==
    /\ [][\A w \in Workers :
             (txn[w].op \in {"update_status", "approve_crew"} /\ Commit(w)) =>
                 /\ \/ crew'[txn[w].id].status = crew[txn[w].id].status
                    \/ crew'[txn[w].id].status >= txn[w].loaded
                 /\ crew[txn[w].id].status = txn[w].loaded =>
                        crew'[txn[w].id].status >= crew[txn[w].id].status
                 /\ txn[w].op = "approve_crew" =>
                        crew'[txn[w].id].status >= crew[txn[w].id].status]_vars
    /\ [][\A i \in 1..Len(crew) :
             Lowered(i) =>
                 \/ response'.op = "reject_crew" /\ crew'[i].status = -1
                 \/ response'.op = "update_status" /\ StaleRead(i, "update_status")]_vars

\* an advance that read status 0 is about to commit 1 over an approval
C21_Witness ==
    /\ response = NoResponse
    /\ Len(crew) = 1
    /\ crew[1].status = 3
    /\ txn["w1"] = NoTxn
    /\ txn["w2"] = Txn("update_status", "s1", 1, 0)

\* C22: when two crew registrations with the same trimmed, upper-cased
\* passport both pass the duplicate lookup before either commits, the one
\* that commits second adds no record and is refused with the
\* duplicate-passport message, as a registration of a stored passport is
C22_LosingRegistrationIsDuplicate ==
    [][\A w \in Workers :
          (txn[w].op = "register" /\ PassportTaken(txn[w].form) /\ CommitRegister(w)) =>
              RejectedAsDuplicate]_vars

====
